---- MODULE Spec2Model ----
(***************************************************************************)
(* The three example programs of go-echo-practice as one state machine:   *)
(*   "simple"  q1-simple-server/cmd/main.go  (GET /)                       *)
(*   "todo"    todo-app/main.go + config.LoadConfig                        *)
(*   "json"    q2-json-response/main.go      (GET /users, /user, /users2,  *)
(*                                            POST /users)                 *)
(* One behaviour is one process run of one of the programs (prog), from    *)
(* the entry of main to its exit, with the requests it serves in between.  *)
(***************************************************************************)
EXTENDS Integers, Sequences, FiniteSets, TLC

\* Number of requests one run receives.
MaxRequests == 2

Programs == {"simple", "todo", "json"}

(***************************************************************************)
(* Process environment and .env file (todo-app).                           *)
(* A variable is <<>> when unset and <<v>> when set to the string v.       *)
(***************************************************************************)
EnvKeys == {"APP_ENV", "PORT", "DB_URI"}

Unset == <<>>

EmptyEnv == [k \in EnvKeys |-> Unset]

EnvChoices ==
  [k \in EnvKeys |->
     CASE k = "APP_ENV" -> {Unset, <<"">>, <<"production">>}
       [] k = "PORT"    -> {Unset, <<"">>, <<"9090">>}
       [] k = "DB_URI"  -> {Unset, <<"">>, <<"mongodb://a">>, <<"mongodb://b">>}]

Environments == {e \in [EnvKeys -> UNION {EnvChoices[k] : k \in EnvKeys}] :
                   \A k \in EnvKeys : e[k] \in EnvChoices[k]}

\* The .env file of the working directory: absent, or a set of assignments.
NoDotenv == [exists |-> FALSE, vars |-> EmptyEnv]

DotenvFiles ==
  { NoDotenv,
    [exists |-> TRUE, vars |-> [EmptyEnv EXCEPT !["DB_URI"] = <<"mongodb://file">>]],
    [exists |-> TRUE, vars |-> [EmptyEnv EXCEPT !["APP_ENV"] = <<"staging">>,
                                                !["PORT"] = <<"3000">>]] }

\* os.Getenv: the value of the variable, "" when it is unset.
Getenv(env, key) == IF env[key] = Unset THEN "" ELSE env[key][1]

\* godotenv.Load(): every assignment of the file is exported unless the
\* variable already exists in the environment; a missing file is an error,
\* which LoadConfig discards.
GodotenvLoad(env, file) ==
  IF ~file.exists THEN env
  ELSE [k \in EnvKeys |->
          IF env[k] = Unset /\ file.vars[k] # Unset THEN file.vars[k] ELSE env[k]]

\* A variant that tells a set-but-empty variable from an unset one.
getEnvLookup(env, key, defaultValue) ==
  IF env[key] # Unset THEN env[key][1] ELSE defaultValue

getEnv(env, key, defaultValue) ==
  IF Getenv(env, key) # "" THEN Getenv(env, key) ELSE defaultValue

NoConfig == [AppEnv |-> "", Port |-> "", DBURI |-> ""]

\* A Config literal that gives DB_URI a default as well.
NewConfigDefaultDB(env) ==
  [AppEnv |-> getEnv(env, "APP_ENV", "development"),
   Port   |-> getEnv(env, "PORT", "8080"),
   DBURI  |-> getEnv(env, "DB_URI", "mongodb://localhost:27017")]

\* The Config literal built by LoadConfig.
NewConfig(env) ==
  [AppEnv |-> getEnv(env, "APP_ENV", "development"),
   Port   |-> getEnv(env, "PORT", "8080"),
   DBURI  |-> getEnv(env, "DB_URI", "")]

(***************************************************************************)
(* JSON.  A value is a tagged record; a number carries its literal text.   *)
(* An encoded object is the set of its <<key, value>> members.             *)
(***************************************************************************)
Str(s) == [t |-> "str", v |-> s]

Num(lit) == [t |-> "num", v |-> lit]

JNull == [t |-> "null", v |-> ""]

\* Marks a key the object does not have.
Absent == [t |-> "absent", v |-> ""]

Digits == <<"0", "1", "2", "3", "4", "5", "6", "7", "8", "9">>

\* The decimal text encoding/json writes for a non-negative int.
RECURSIVE Itoa(_)
Itoa(n) == IF n < 10 THEN Digits[n + 1] ELSE Itoa(n \div 10) \o Digits[(n % 10) + 1]

Member(obj, key) ==
  IF \E m \in obj : m[1] = key THEN (CHOOSE m \in obj : m[1] = key)[2] ELSE Absent

HasKey(obj, key) == \E m \in obj : m[1] = key

\* type User struct { Id int `json:"id"`; Name string `json:"name"` }
MarshalUser(u) == {<<"id", Num(Itoa(u.Id))>>, <<"name", Str(u.Name)>>}

\* The same map with the id written as a string.
MarshalIdNameMapStringId(id, name) == {<<"id", Str(Itoa(id))>>, <<"name", Str(name)>>}

\* map[string]interface{}{"id": id, "name": name} and echo.Map, encoded.
MarshalIdNameMap(id, name) == {<<"id", Num(Itoa(id))>>, <<"name", Str(name)>>}

\* echo.Map{"message": msg}, encoded.
MarshalMessage(msg) == {<<"message", Str(msg)>>}

\* The encoding of the struct without its json tags.
MarshalUntagged(u) == {<<"Name", Str(u.Name)>>, <<"Email", Str(u.Email)>>}

\* An encoding that applies omitempty to both fields.
MarshalOmitBoth(u) ==
  (IF u.Name # "" THEN {<<"name", Str(u.Name)>>} ELSE {})
    \cup (IF u.Email # "" THEN {<<"email", Str(u.Email)>>} ELSE {})

\* type UserSignupRequest struct {
\*   Name string `json:"name,omitempty"`; Email string `json:"email"` }
MarshalUserSignupRequest(u) ==
  (IF u.Name # "" THEN {<<"name", Str(u.Name)>>} ELSE {})
    \cup {<<"email", Str(u.Email)>>}

(***************************************************************************)
(* Requests.                                                               *)
(* A body is empty (Content-Length 0), "syntax" (bytes that do not start a *)
(* JSON value), "array" (a JSON value that is no object), "object", or     *)
(* "trailing" (an object followed by bytes that are not JSON).             *)
(***************************************************************************)
Body(kind, name, email) == [kind |-> kind, name |-> name, email |-> email]

EmptyBody == Body("empty", Absent, Absent)

NameValues == {Absent, Num("7"), Str(""), Str("ann")}

EmailValues == {Absent, JNull, Num("7"), Str(""), Str("a@b.com")}

Bodies ==
  {EmptyBody, Body("syntax", Absent, Absent), Body("array", Absent, Absent),
   Body("trailing", Absent, Str("a@b.com"))}
    \cup {Body("object", n, e) : n \in NameValues, e \in EmailValues}

Request(method, path, ctype, body) ==
  [method |-> method, path |-> path, ctype |-> ctype, body |-> body]

Get(path) == Request("GET", path, "", EmptyBody)

MIMEApplicationJSON == "application/json"

Requests(p) ==
  IF p = "json"
    THEN {Get(path) : path \in {"/users", "/user", "/users2", "/nope"}}
           \cup {Request("POST", "/users", MIMEApplicationJSON, b) : b \in Bodies}
           \cup {Request("POST", "/users", "text/plain", b) :
                   b \in {EmptyBody, Body("object", Str("ann"), Str("a@b.com"))}}
           \cup {Request("POST", "/user", MIMEApplicationJSON,
                         Body("object", Absent, Str("a@b.com")))}
    ELSE {Get("/"), Get("/nope"),
          Request("POST", "/", MIMEApplicationJSON, Body("object", Absent, Str("a@b.com")))}

(***************************************************************************)
(* Binding: c.Bind(&userReq) on a POST request.                            *)
(***************************************************************************)
ZeroUserSignupRequest == [Name |-> "", Email |-> ""]

\* encoding/json storing one member into a string field: a string is stored,
\* null and a missing key leave the field alone, anything else is a
\* type error (and leaves the field alone).
DecodeString(old, value) == IF value.t = "str" THEN value.v ELSE old

TypeError(value) == value.t \notin {"str", "null", "absent"}

\* json.NewDecoder(body).Decode(&u): decodes the first JSON value of the body
\* and does not look at what follows it.
Deserialize(u, body) ==
  CASE body.kind = "syntax" -> [err |-> TRUE, val |-> u]
    [] body.kind = "array"  -> [err |-> TRUE, val |-> u]
    [] OTHER ->
         [err |-> TypeError(body.name) \/ TypeError(body.email),
          val |-> [Name  |-> DecodeString(u.Name, body.name),
                   Email |-> DecodeString(u.Email, body.email)]]

\* A binder that also rejects a body without a usable email member.
BindRequireEmail(u, req) ==
  IF req.body.kind = "empty" THEN [err |-> TRUE, val |-> u]
  ELSE IF req.ctype # MIMEApplicationJSON THEN [err |-> TRUE, val |-> u]
  ELSE [err |-> Deserialize(u, req.body).err \/ req.body.email.t # "str",
        val |-> Deserialize(u, req.body).val]

\* DefaultBinder.Bind for a POST: nothing to do for an empty body, the JSON
\* decoder for application/json, ErrUnsupportedMediaType for a media type
\* it has no decoder for.
Bind(u, req) ==
  IF req.body.kind = "empty" THEN [err |-> FALSE, val |-> u]
  ELSE IF req.ctype # MIMEApplicationJSON THEN [err |-> TRUE, val |-> u]
  ELSE Deserialize(u, req.body)

(***************************************************************************)
(* Responses.                                                              *)
(***************************************************************************)
\* c.String(code, s)
String(code, s) == [status |-> code, ctype |-> "text/plain", text |-> s, obj |-> {}]

\* c.JSON(code, v), with v already encoded
JSON(code, obj) == [status |-> code, ctype |-> "application/json", text |-> "", obj |-> obj]

StatusOK == 200

StatusBadRequest == 400

(***************************************************************************)
(* State.                                                                  *)
(***************************************************************************)
VARIABLES
  prog,        \* the program this process runs
  osEnv,       \* the process environment
  dotenvFile,  \* the .env file of the working directory
  pc,          \* position of main: "main", "setup", "start", "serving", "exited"
  cfg,         \* the Config built by LoadConfig
  routes,      \* the router: <<method, path>> -> handler
  middleware,  \* middleware installed with e.Use
  listener,    \* the bound address, "" while no listener is open
  starts,      \* number of calls of e.Start
  startErr,    \* "" until Start returns an error; then "bind" or "serve"
  log,         \* what the process has logged
  exitCode,    \* -1 while the process runs, its exit status afterwards
  inflight,    \* requests accepted and not yet answered
  userReq,     \* the userReq variable of each running POST /users handler
  responses,   \* the <<request, response>> pairs sent so far
  handled      \* number of responses sent

vars == <<prog, osEnv, dotenvFile, pc, cfg, routes, middleware, listener, starts,
          startErr, log, exitCode, inflight, userReq, responses, handled>>

Slots == 0 .. MaxRequests

Init ==
  /\ prog \in Programs
  /\ IF prog = "todo"
       THEN osEnv \in Environments /\ dotenvFile \in DotenvFiles
       ELSE osEnv = EmptyEnv /\ dotenvFile = NoDotenv
  /\ pc = "main"
  /\ cfg = NoConfig
  /\ routes = {}
  /\ middleware = {}
  /\ listener = ""
  /\ starts = 0
  /\ startErr = ""
  /\ log = <<>>
  /\ exitCode = -1
  /\ inflight = {}
  /\ userReq = [s \in Slots |-> ZeroUserSignupRequest]
  /\ responses = {}
  /\ handled = 0

(***************************************************************************)
(* Startup.                                                                *)
(***************************************************************************)
LogEntry(logger, level, msg) == [logger |-> logger, level |-> level, msg |-> msg]

\* config.LoadConfig: load .env, build the Config, log.Fatal (exit status 1)
\* when DBURI is empty, return the Config otherwise.
LoadConfig ==
  /\ prog = "todo"
  /\ pc = "main"
  /\ osEnv' = GodotenvLoad(osEnv, dotenvFile)
  /\ cfg' = NewConfig(osEnv')
  /\ IF cfg'.DBURI = ""
       THEN /\ log' = Append(log, LogEntry("log", "FATAL", "DB_URI is required but not set"))
            /\ pc' = "exited"
            /\ exitCode' = 1
       ELSE /\ pc' = "setup"
            /\ UNCHANGED <<log, exitCode>>
  /\ UNCHANGED <<prog, starts, dotenvFile, routes, middleware, listener, startErr,
                 inflight, userReq, responses, handled>>

Route(method, path, handler) == [method |-> method, path |-> path, handler |-> handler]

\* q1-simple-server: e := echo.New(); e.GET("/", ...)
SimpleSetup ==
  /\ prog = "simple"
  /\ pc = "main"
  /\ routes' = {Route("GET", "/", "hello")}
  /\ pc' = "start"
  /\ UNCHANGED <<prog, starts, osEnv, dotenvFile, cfg, middleware, listener, startErr,
                 log, exitCode, inflight, userReq, responses, handled>>

\* todo-app: e := echo.New(); e.Use(middleware.RequestLogger()); e.GET("/", ...)
TodoSetup ==
  /\ prog = "todo"
  /\ pc = "setup"
  /\ middleware' = {"RequestLogger"}
  /\ routes' = {Route("GET", "/", "todoRoot")}
  /\ pc' = "start"
  /\ UNCHANGED <<prog, starts, osEnv, dotenvFile, cfg, listener, startErr,
                 log, exitCode, inflight, userReq, responses, handled>>

\* q2-json-response: e := echo.New() and the four route registrations.
JsonSetup ==
  /\ prog = "json"
  /\ pc = "main"
  /\ routes' = {Route("GET", "/users", "getUsers"),
                Route("GET", "/user", "getUser"),
                Route("GET", "/users2", "getUsers2"),
                Route("POST", "/users", "postUsers")}
  /\ pc' = "start"
  /\ UNCHANGED <<prog, starts, osEnv, dotenvFile, cfg, middleware, listener, startErr,
                 log, exitCode, inflight, userReq, responses, handled>>

\* todo-app: port := fmt.Sprintf(":%s", cfg.Port)
TodoAddress(c) == ":" \o c.Port

\* The address each program passes to Start.
StartAddress ==
  CASE prog = "simple" -> ":0"
    [] prog = "todo"   -> TodoAddress(cfg)
    [] prog = "json"   -> "127.0.0.1:3000"

\* e.Start(addr) binds the listener and serves.
StartListen ==
  /\ pc = "start"
  /\ listener' = StartAddress
  /\ starts' = starts + 1
  /\ pc' = "serving"
  /\ UNCHANGED <<prog, osEnv, dotenvFile, cfg, routes, middleware, startErr,
                 log, exitCode, inflight, userReq, responses, handled>>

\* What main does with the error Start returned, as <<log, exit status>>:
\* the json server hands it to e.Logger.Fatal.
AfterStartFatal(l) ==
  <<Append(l, LogEntry("echo", "FATAL", "start error")), 1>>

\* The simple server drops the error and returns from main; the todo-app
\* logs it at ERROR level and returns from main.
AfterStartError(l) ==
  CASE prog = "simple" -> <<l, 0>>
    [] prog = "todo"   -> <<Append(l, LogEntry("echo", "ERROR", "failed to start server")), 0>>
    [] prog = "json"   -> AfterStartFatal(l)

\* A main that calls Start again when it has returned an error.
MainRetriesStart == "start"

\* Where main goes once Start has returned: in all three programs the call
\* of Start is the last statement of main, so the process ends.
MainAfterStart == "exited"

\* e.Start(addr) returns an error: the address cannot be bound, or the
\* listener fails while serving.  The process ends; requests in flight die
\* with it.
StartError ==
  /\ pc \in {"start", "serving"}
  /\ listener' = ""
  /\ startErr' = IF pc = "start" THEN "bind" ELSE "serve"
  /\ log' = AfterStartError(log)[1]
  /\ exitCode' = AfterStartError(log)[2]
  /\ starts' = IF pc = "start" THEN starts + 1 ELSE starts
  /\ pc' = MainAfterStart
  /\ inflight' = {}
  /\ userReq' = [s \in Slots |-> ZeroUserSignupRequest]
  /\ UNCHANGED <<prog, osEnv, dotenvFile, cfg, routes, middleware,
                 responses, handled>>

Startup == LoadConfig \/ SimpleSetup \/ TodoSetup \/ JsonSetup \/ StartListen \/ StartError

(***************************************************************************)
(* Serving.  Every accepted request runs its handler in a goroutine of its *)
(* own; the POST /users handler is two steps (Bind, then the response), so *)
(* that handlers of concurrent requests interleave.                        *)
(***************************************************************************)
FreeIds == {i \in 1 .. MaxRequests : \A r \in inflight : r.id # i}

\* The server accepts a request.
Receive ==
  /\ pc = "serving"
  /\ handled + Cardinality(inflight) < MaxRequests
  /\ \E req \in Requests(prog) :
       LET id == CHOOSE i \in FreeIds : \A j \in FreeIds : i <= j
       IN  inflight' = inflight \cup {[id |-> id, req |-> req, phase |-> "received"]}
  /\ UNCHANGED <<prog, starts, osEnv, dotenvFile, pc, cfg, routes, middleware, listener,
                 startErr, log, exitCode, userReq, responses, handled>>

\* The router: the handler registered for the method and path, the
\* method-not-allowed handler for a known path, the not-found handler otherwise.
FindHandler(rt, method, path) ==
  IF \E r \in rt : r.method = method /\ r.path = path
    THEN (CHOOSE r \in rt : r.method = method /\ r.path = path).handler
  ELSE IF \E r \in rt : r.path = path THEN "methodNotAllowed"
  ELSE "notFound"

Dispatched(r, handler) ==
  /\ pc = "serving"
  /\ r.phase = "received"
  /\ FindHandler(routes, r.req.method, r.req.path) = handler

\* What middleware.RequestLogger writes for one request.
RequestLog(l, r) ==
  IF "RequestLogger" \in middleware
    THEN Append(l, LogEntry("echo", "INFO", "REQUEST " \o r.req.method \o " " \o r.req.path))
    ELSE l

\* The response of request r is written; its handler returns.
Reply(r, resp) ==
  /\ inflight' = inflight \ {r}
  /\ responses' = responses \cup {<<r.req, resp>>}
  /\ handled' = handled + 1
  /\ log' = RequestLog(log, r)

\* simple server, GET /
HelloHandler ==
  \E r \in inflight :
    /\ Dispatched(r, "hello")
    /\ Reply(r, String(200, "Hello world"))
    /\ UNCHANGED <<prog, starts, osEnv, dotenvFile, pc, cfg, routes, middleware, listener,
                   startErr, exitCode, userReq>>

\* A handler that reads APP_ENV itself instead of the loaded Config.
TodoRootBodyFromEnv == "Todo API running in " \o Getenv(osEnv, "APP_ENV") \o " mode"

\* A greeting that also names the database.
TodoRootTextWithDB(c) == "Todo API running in " \o c.AppEnv \o " mode on " \o c.DBURI

\* todo-app, GET /: "Todo API running in "+cfg.AppEnv+" mode"
TodoRootText(c) == "Todo API running in " \o c.AppEnv \o " mode"

TodoRootBody == TodoRootText(cfg)

\* todo-app, GET /
TodoRootHandler ==
  \E r \in inflight :
    /\ Dispatched(r, "todoRoot")
    /\ Reply(r, String(200, TodoRootBody))
    /\ UNCHANGED <<prog, starts, osEnv, dotenvFile, pc, cfg, routes, middleware, listener,
                   startErr, exitCode, userReq>>

\* json server, GET /users
GetUsersHandler ==
  \E r \in inflight :
    /\ Dispatched(r, "getUsers")
    /\ Reply(r, JSON(StatusOK, MarshalIdNameMap(1, "john")))
    /\ UNCHANGED <<prog, starts, osEnv, dotenvFile, pc, cfg, routes, middleware, listener,
                   startErr, exitCode, userReq>>

\* json server, GET /user
GetUserHandler ==
  \E r \in inflight :
    /\ Dispatched(r, "getUser")
    /\ Reply(r, JSON(StatusOK, MarshalIdNameMap(1, "John")))
    /\ UNCHANGED <<prog, starts, osEnv, dotenvFile, pc, cfg, routes, middleware, listener,
                   startErr, exitCode, userReq>>

\* json server, GET /users2
GetUsers2Handler ==
  \E r \in inflight :
    /\ Dispatched(r, "getUsers2")
    /\ Reply(r, JSON(200, MarshalUser([Id |-> 2, Name |-> "john 2"])))
    /\ UNCHANGED <<prog, starts, osEnv, dotenvFile, pc, cfg, routes, middleware, listener,
                   startErr, exitCode, userReq>>

\* One userReq variable for all handlers (a package-level variable).
SharedSlot(id) == 0

\* The userReq variable of the handler running request id: a local of the
\* handler, one per call.
Slot(id) == id

\* A handler that does not test the error of Bind.
BranchIgnoringError(err) == "bound"

\* if err := c.Bind(&userReq); err != nil { ... }: the branch taken
Branch(err) == IF err THEN "bindError" ELSE "bound"

\* json server, POST /users, first half: var userReq; c.Bind(&userReq)
PostUsersBind ==
  \E r \in inflight :
    /\ Dispatched(r, "postUsers")
    /\ LET b == Bind(ZeroUserSignupRequest, r.req)
       IN  /\ userReq' = [userReq EXCEPT ![Slot(r.id)] = b.val]
           /\ inflight' = (inflight \ {r})
                \cup {[r EXCEPT !.phase = Branch(b.err)]}
    /\ UNCHANGED <<prog, starts, osEnv, dotenvFile, pc, cfg, routes, middleware, listener,
                   startErr, log, exitCode, responses, handled>>

\* json server, POST /users, err != nil: the 400 response
PostUsersReject ==
  \E r \in inflight :
    /\ pc = "serving"
    /\ r.phase = "bindError"
    /\ Reply(r, JSON(StatusBadRequest, MarshalMessage("invalid request payload")))
    /\ userReq' = [userReq EXCEPT ![Slot(r.id)] = ZeroUserSignupRequest]
    /\ UNCHANGED <<prog, starts, osEnv, dotenvFile, pc, cfg, routes, middleware, listener,
                   startErr, exitCode>>

\* json server, POST /users, err == nil: c.JSON(200, userReq)
PostUsersEcho ==
  \E r \in inflight :
    /\ pc = "serving"
    /\ r.phase = "bound"
    /\ Reply(r, JSON(200, MarshalUserSignupRequest(userReq[Slot(r.id)])))
    /\ userReq' = [userReq EXCEPT ![Slot(r.id)] = ZeroUserSignupRequest]
    /\ UNCHANGED <<prog, starts, osEnv, dotenvFile, pc, cfg, routes, middleware, listener,
                   startErr, exitCode>>

\* Echo's answer to a request no route matches.
RouterError(handler) ==
  IF handler = "methodNotAllowed"
    THEN JSON(405, MarshalMessage("Method Not Allowed"))
    ELSE JSON(404, MarshalMessage("Not Found"))

NoRouteHandler ==
  \E r \in inflight :
    /\ \/ Dispatched(r, "notFound")
       \/ Dispatched(r, "methodNotAllowed")
    /\ Reply(r, RouterError(FindHandler(routes, r.req.method, r.req.path)))
    /\ UNCHANGED <<prog, starts, osEnv, dotenvFile, pc, cfg, routes, middleware, listener,
                   startErr, exitCode, userReq>>

Serve ==
  \/ Receive
  \/ HelloHandler
  \/ TodoRootHandler
  \/ GetUsersHandler
  \/ GetUserHandler
  \/ GetUsers2Handler
  \/ PostUsersBind
  \/ PostUsersReject
  \/ PostUsersEcho
  \/ NoRouteHandler

(***************************************************************************)
(* Properties.                                                             *)
(***************************************************************************)
IsPostUsers(req) == req.method = "POST" /\ req.path = "/users"

\* The struct Bind leaves in a fresh userReq for this request.
Decoded(req) == Bind(ZeroUserSignupRequest, req).val

\* What a client reads back from a response object: its name and email
\* members decoded into a UserSignupRequest.
ReadBack(obj) ==
  Deserialize(ZeroUserSignupRequest,
              Body("object", Member(obj, "name"), Member(obj, "email")))

\* C1: every POST /users whose body binds without error is answered with
\* status 200 and a JSON object that has no members but name and email and
\* from which exactly the decoded Name and Email are read back.
C1_EchoOfBoundRequest ==
  \A p \in responses :
    (prog = "json" /\ IsPostUsers(p[1]) /\ ~Bind(ZeroUserSignupRequest, p[1]).err) =>
       /\ p[2].status = 200
       /\ p[2].ctype = "application/json"
       /\ \A m \in p[2].obj : m[1] \in {"name", "email"} /\ m[2].t = "str"
       /\ ReadBack(p[2].obj).val = Decoded(p[1])

C1_Witness ==
  \E p \in responses :
    /\ prog = "json" /\ IsPostUsers(p[1])
    /\ p[1].body = Body("object", Str("ann"), Str("a@b.com"))
    /\ p[1].ctype = MIMEApplicationJSON
    /\ p[2].status = 200
    /\ p[2].obj = {<<"name", Str("ann")>>, <<"email", Str("a@b.com")>>}

\* A body no JSON value can be decoded from.
Unparsable(req) == req.ctype = MIMEApplicationJSON /\ req.body.kind = "syntax"

InvalidPayload(resp) ==
  /\ resp.status = 400
  /\ resp.ctype = "application/json"
  /\ resp.obj = {<<"message", Str("invalid request payload")>>}

C3_NoListenerWithoutDBURI ==
  prog = "todo" =>
    /\ (pc # "main" /\ Getenv(osEnv, "DB_URI") = "") =>
          /\ pc = "exited"
          /\ exitCode = 1
          /\ routes = {} /\ middleware = {}
          /\ listener = "" /\ startErr = ""
          /\ responses = {}
    /\ listener # "" => cfg.DBURI # ""

C3_Witness ==
  /\ prog = "todo"
  /\ osEnv["DB_URI"] = Unset
  /\ pc = "exited" /\ exitCode = 1
  /\ Len(log) = 1 /\ log[1].level = "FATAL"

\* The value of a variable when it holds a non-empty value, the default otherwise.
ValueOrDefault(key, default) ==
  IF osEnv[key] \notin {Unset, <<"">>} THEN osEnv[key][1] ELSE default

\* C4: once LoadConfig has built the Config, AppEnv is the non-empty value of
\* APP_ENV or else "development", Port is the non-empty value of PORT or else
\* "8080" (a variable set to "" counts as unset), and DBURI is the value of
\* DB_URI or else "" (no default).
C4_ConfigDefaults ==
  (prog = "todo" /\ pc # "main") =>
     /\ cfg.AppEnv = ValueOrDefault("APP_ENV", "development")
     /\ cfg.Port = ValueOrDefault("PORT", "8080")
     /\ cfg.DBURI = ValueOrDefault("DB_URI", "")

C4_Witness ==
  /\ prog = "todo" /\ pc = "serving"
  /\ osEnv["APP_ENV"] = <<"">> /\ cfg.AppEnv = "development"
  /\ osEnv["PORT"] = <<"9090">> /\ cfg.Port = "9090"
  /\ listener = ":9090"

\* C5: in a 200 response to POST /users the name member is present exactly
\* when the decoded Name is not "", and the email member is always present,
\* also when the decoded Email is "".
C5_OmitEmptyNameOnly ==
  \A p \in responses :
    (prog = "json" /\ IsPostUsers(p[1]) /\ p[2].status = 200) =>
       /\ HasKey(p[2].obj, "name") <=> Decoded(p[1]).Name # ""
       /\ HasKey(p[2].obj, "email")
       /\ Member(p[2].obj, "email") = Str(Decoded(p[1]).Email)

C5_Witness ==
  \E p \in responses :
    /\ prog = "json" /\ IsPostUsers(p[1])
    /\ p[1].ctype = MIMEApplicationJSON
    /\ p[1].body = Body("object", Str(""), Str(""))
    /\ p[2].status = 200
    /\ p[2].obj = {<<"email", Str("")>>}

\* C6: a well-formed JSON object without an email member, posted to /users,
\* is answered with the 400 invalid-request-payload response.
C6_MissingEmailRejected ==
  \A p \in responses :
    (/\ prog = "json" /\ IsPostUsers(p[1])
     /\ p[1].ctype = MIMEApplicationJSON
     /\ p[1].body.kind = "object"
     /\ p[1].body.name.t \in {"str", "absent"}
     /\ p[1].body.email = Absent) => InvalidPayload(p[2])

\* The response POST /users gets when its handler runs with no other request
\* in flight: Bind into a fresh userReq, then the 400 message or the echo.
PostUsersAlone(req) ==
  LET b == Bind(ZeroUserSignupRequest, req)
  IN  IF b.err THEN JSON(400, MarshalMessage("invalid request payload"))
      ELSE JSON(200, MarshalUserSignupRequest(b.val))

\* C7: the response to a request depends on that request alone (and on the
\* Config of the run): two requests of one run that are equal get equal
\* responses, and every POST /users gets the response it gets when handled
\* with no other request in flight, however the handlers interleave.
C7_RequestsIndependent ==
  /\ \A p, q \in responses : p[1] = q[1] => p[2] = q[2]
  /\ \A p \in responses :
       (prog = "json" /\ IsPostUsers(p[1])) => p[2] = PostUsersAlone(p[1])

\* A POST /users is answered while a POST /users with another body, which
\* arrived while the first was in flight, has bound its body and waits.
C7_Witness ==
  /\ prog = "json"
  /\ \E p \in responses, r \in inflight :
       /\ IsPostUsers(p[1]) /\ p[2].status = 200
       /\ r.id = 2 /\ r.phase = "bound" /\ handled = 1
       /\ p[1].body # r.req.body
       /\ Decoded(p[1]) # userReq[Slot(r.id)]

FixedJSON(resp, id, name) ==
  /\ resp.status = 200
  /\ resp.ctype = "application/json"
  /\ resp.obj = {<<"id", Num(id)>>, <<"name", Str(name)>>}

\* C9: in the json server every GET /user is answered 200 {"id":1,"name":"John"},
\* every GET /users2 200 {"id":2,"name":"john 2"} and every GET /users
\* 200 {"id":1,"name":"john"}, whatever else the run has handled.
C9_FixedUsers ==
  \A p \in responses :
    (prog = "json" /\ p[1].method = "GET") =>
       /\ p[1].path = "/user" => FixedJSON(p[2], "1", "John")
       /\ p[1].path = "/users2" => FixedJSON(p[2], "2", "john 2")
       /\ p[1].path = "/users" => FixedJSON(p[2], "1", "john")

\* GET /users answered in a run that has also echoed a POST /users.
C9_Witness ==
  /\ prog = "json"
  /\ \E p, q \in responses :
       /\ IsPostUsers(p[1]) /\ p[2].status = 200
       /\ p[2].obj = {<<"name", Str("ann")>>, <<"email", Str("a@b.com")>>}
       /\ q[1] = Get("/users")
       /\ FixedJSON(q[2], "1", "john")

\* C10: when the simple server cannot start its listener, the error of Start
\* is logged at FATAL level and the process exits with a non-zero status.
C10_SimpleStartFailureFatal ==
  (prog = "simple" /\ startErr = "bind") =>
     /\ exitCode # 0
     /\ \E i \in 1 .. Len(log) : log[i].level = "FATAL"

LastLevel == IF log = <<>> THEN "" ELSE log[Len(log)].level

DBURIValues == {"mongodb://a", "mongodb://b", "mongodb://file"}

\* The Config LoadConfig builds in the run that differs from this one only in
\* having v as its DB_URI value.
ConfigWithDBURI(v) ==
  NewConfig(GodotenvLoad([osEnv EXCEPT !["DB_URI"] = <<v>>], dotenvFile))

\* The response of the todo-app to a request when its Config is c.
TodoResponseWith(c, req) ==
  LET h == FindHandler(routes, req.method, req.path)
  IN  IF h = "todoRoot" THEN String(200, TodoRootText(c)) ELSE RouterError(h)

\* C12: a todo-app run with a non-empty DB_URI agrees with the run that has
\* any other non-empty DB_URI value in its place: the listener address is the
\* same, ":" followed by Port, and every response sent is the response the
\* other run gives to that request.
C12_DBURIValueUnobservable ==
  (prog = "todo" /\ pc # "main" /\ cfg.DBURI # "") =>
     \A v \in DBURIValues :
       LET other == ConfigWithDBURI(v)
       IN  /\ other.DBURI = v
           /\ TodoAddress(other) = TodoAddress(cfg)
           /\ listener # "" =>
                listener = TodoAddress(other) /\ listener = ":" \o cfg.Port
           /\ \A p \in responses : p[2] = TodoResponseWith(other, p[1])

\* The todo-app run with DB_URI=mongodb://b listens and has answered GET /.
C12_Witness ==
  /\ prog = "todo"
  /\ osEnv["DB_URI"] = <<"mongodb://b">>
  /\ cfg.DBURI = "mongodb://b"
  /\ listener = ":8080"
  /\ \E p \in responses : p[1] = Get("/") /\ p[2].status = 200

Next == Startup \/ Serve

Spec == Init /\ [][Next]_vars
====
